---- MODULE Spec2Model ----
(***************************************************************************)
(* A model of jupymerge (src/jupymerge.py): cells are extracted from a     *)
(* source notebook and spliced into a destination notebook.                *)
(*                                                                         *)
(* Strings are sequences of characters, so that the digit test and the     *)
(* decimal conversion of the command line are computed, not assumed.       *)
(* A Python value that is "None, an int or a str" is a record with a tag.  *)
(* Python indices are 0-based; TLA+ sequences are 1-based.                 *)
(***************************************************************************)
EXTENDS Integers, Sequences, FiniteSets

VARIABLES
    pc,               \* position of the run: the step that runs next
    entry,            \* "cli" (main) or "api" (extract_cells called directly)
    argv,             \* the command-line tokens, as argparse sees them
    args,             \* the arguments of extract_cells
    disk,             \* path -> content of the file
    disk0,            \* the disk when the run started (history)
    source_data,      \* the loaded source document
    dest_data,        \* the loaded destination document
    cells_to_extract, \* the result of the Selector
    error,            \* the error the run ended with, "none" otherwise
    log               \* the steps that completed, in order (history)

vars == <<pc, entry, argv, args, disk, disk0, source_data, dest_data,
          cells_to_extract, error, log>>

-----------------------------------------------------------------------------
(* Bounds *)

\* longest cell sequence of a document given to the Selector or the Inserter
MaxLen == 3
\* longest explicit reference list
MaxRefs == 2
\* longest sequence of cells to insert
MaxIns == 2
\* longest document on disk in a whole run
MaxDocLen == 2

-----------------------------------------------------------------------------
(* Values *)

None == [t |-> "none", i |-> 0, s |-> <<>>]
IntV(k) == [t |-> "int", i |-> k, s |-> <<>>]
StrV(x) == [t |-> "str", i |-> 0, s |-> x]

\* Optional[List[...]]: None, or a list
NoList == [some |-> FALSE, l |-> <<>>]
List(l) == [some |-> TRUE, l |-> l]

\* a command-line option: absent, or present with its token
NoTok == [some |-> FALSE, tok |-> <<>>]
Tok(x) == [some |-> TRUE, tok |-> x]

Cell(id, body) == [id |-> id, body |-> body]

A == <<"a">>
B == <<"b">>
X == <<"x">>
Z == <<"z">>

\* the cells of the documents: two cells share the id "a"
Cells == { Cell(A, 1), Cell(A, 2), Cell(B, 3) }
\* the cells of a document on disk in a whole run
DocCells == { Cell(A, 1), Cell(B, 3) }
\* the cells that are inserted when the Inserter is taken alone
InsCells == { Cell(X, 7), Cell(A, 1) }

SeqsUpTo(S, n) == UNION { [1..k -> S] : k \in 0..n }

Ok(cells) == [ok |-> TRUE, err |-> "none", cells |-> cells]
Raise(e) == [ok |-> FALSE, err |-> e, cells |-> <<>>]

-----------------------------------------------------------------------------
(* Python's slices: a negative bound counts from the end, and every bound  *)
(* is clamped to 0..len.                                                   *)

Clamp(k, n) ==
    IF k < 0
    THEN (IF k + n < 0 THEN 0 ELSE k + n)
    ELSE (IF k > n THEN n ELSE k)

\* s[:k]
SliceTo(s, k) == SubSeq(s, 1, Clamp(k, Len(s)))

\* a slice s[k:] that takes a negative k for 0
SliceFromNoWrap(s, k) == SubSeq(s, (IF k < 0 THEN 0 ELSE k) + 1, Len(s))

\* s[k:]
SliceFrom(s, k) == SubSeq(s, Clamp(k, Len(s)) + 1, Len(s))

-----------------------------------------------------------------------------
(* find_cell_index *)

Matches(cells, id) == { i \in 1..Len(cells) : cells[i].id = id }

Min(S) == CHOOSE m \in S : \A o \in S : m <= o
Max(S) == CHOOSE m \in S : \A o \in S : m >= o

FoundAt(k) == [ok |-> TRUE, err |-> "none", idx |-> k]
NotFoundAt == [ok |-> FALSE, err |-> "StopIteration", idx |-> 0]

\* a resolution that returns the last cell with the id
find_cell_index_last(cells, ref) ==
    IF ref.t = "int"
    THEN FoundAt(ref.i)
    ELSE IF Matches(cells, ref.s) = {}
         THEN NotFoundAt
         ELSE FoundAt(Max(Matches(cells, ref.s)) - 1)

\* an int is returned as it is; a str is the index of the first cell with
\* that id, and next() of the exhausted generator raises StopIteration
find_cell_index(cells, ref) ==
    IF ref.t = "int"
    THEN FoundAt(ref.i)
    ELSE IF Matches(cells, ref.s) = {}
         THEN NotFoundAt
         ELSE FoundAt(Min(Matches(cells, ref.s)) - 1)

-----------------------------------------------------------------------------
(* insert_cells *)

insert_before(dest_cells, cells_to_insert, ref) ==
    LET r == find_cell_index(dest_cells, ref)
    IN  IF ~r.ok THEN Raise(r.err)
        ELSE Ok(SliceTo(dest_cells, r.idx) \o cells_to_insert
                \o SliceFrom(dest_cells, r.idx))

\* an insertion after the reference whose tail starts at the reference
insert_after_off_by_one(dest_cells, cells_to_insert, ref) ==
    LET r == find_cell_index(dest_cells, ref)
    IN  IF ~r.ok THEN Raise(r.err)
        ELSE Ok(SliceTo(dest_cells, r.idx + 1) \o cells_to_insert
                \o SliceFrom(dest_cells, r.idx))

insert_after(dest_cells, cells_to_insert, ref) ==
    LET r == find_cell_index(dest_cells, ref)
    IN  IF ~r.ok THEN Raise(r.err)
        ELSE Ok(SliceTo(dest_cells, r.idx + 1) \o cells_to_insert
                \o SliceFrom(dest_cells, r.idx + 1))

\* an Inserter that looks at the references before the two flags
insert_cells_refs_first(dest_cells, cells_to_insert, place_before_id_or_index, place_after_id_or_index, place_at_top, place_at_bottom) ==
    IF place_before_id_or_index.t # "none"
    THEN insert_before(dest_cells, cells_to_insert, place_before_id_or_index)
    ELSE IF place_after_id_or_index.t # "none"
    THEN insert_after(dest_cells, cells_to_insert, place_after_id_or_index)
    ELSE IF place_at_top
    THEN Ok(cells_to_insert \o dest_cells)
    ELSE Ok(dest_cells \o cells_to_insert)

insert_cells(dest_cells, cells_to_insert, place_before_id_or_index, place_after_id_or_index, place_at_top, place_at_bottom) ==
    IF place_at_top
    THEN Ok(cells_to_insert \o dest_cells)
    ELSE IF place_at_bottom
    THEN Ok(dest_cells \o cells_to_insert)
    ELSE IF place_before_id_or_index.t # "none"
    THEN insert_before(dest_cells, cells_to_insert, place_before_id_or_index)
    ELSE IF place_after_id_or_index.t # "none"
    THEN insert_after(dest_cells, cells_to_insert, place_after_id_or_index)
    ELSE Ok(dest_cells \o cells_to_insert)

-----------------------------------------------------------------------------
(* extract_cells_from_source *)

\* x in L, for L a list of ints and strs: an int equals no str
InList(v, l) == \E j \in 1..Len(l) : l[j] = v

\* the positions (1-based) the list comprehension keeps
Kept(cells, l) ==
    { i \in 1..Len(cells) : InList(IntV(i - 1), l) \/ InList(StrV(cells[i].id), l) }

RECURSIVE Filter(_, _, _)
\* the cells at the positions P of cells, from position i on, in order
Filter(cells, P, i) ==
    IF i > Len(cells) THEN <<>>
    ELSE (IF i \in P THEN <<cells[i]>> ELSE <<>>) \o Filter(cells, P, i + 1)

RECURSIVE select_listed_per_reference(_, _)
\* a selection that runs over the list and collects what each reference names
select_listed_per_reference(cells, l) ==
    IF l = <<>> THEN <<>>
    ELSE Filter(cells, Kept(cells, <<Head(l)>>), 1)
         \o select_listed_per_reference(cells, Tail(l))

\* [cell for i, cell in enumerate(cells) if i in L or cell.id in L]
select_listed(cells, l) == Filter(cells, Kept(cells, l), 1)

select_before(cells, ref) ==
    LET r == find_cell_index(cells, ref)
    IN  IF ~r.ok THEN Raise(r.err) ELSE Ok(SliceTo(cells, r.idx))

select_after(cells, ref) ==
    LET r == find_cell_index(cells, ref)
    IN  IF ~r.ok THEN Raise(r.err) ELSE Ok(SliceFrom(cells, r.idx + 1))

\* both branches of the test on the sign are the same slice
select_top(cells, n) == SliceTo(cells, n)

\* cells[-bottom_n:], in both branches of the test on the sign; for 0 this is
\* cells[0:]
select_bottom(cells, n) == SliceFrom(cells, -n)

\* a list is taken when it is truthy: not None and not empty
Truthy(list) == list.some /\ Len(list.l) > 0

extract_cells_from_source(cells, cell_ids_or_indexes, before_id_or_index, after_id_or_index, all_cells, top_n, bottom_n) ==
    IF all_cells
    THEN Ok(cells)
    ELSE IF Truthy(cell_ids_or_indexes)
    THEN Ok(select_listed(cells, cell_ids_or_indexes.l))
    ELSE IF before_id_or_index.t # "none"
    THEN select_before(cells, before_id_or_index)
    ELSE IF after_id_or_index.t # "none"
    THEN select_after(cells, after_id_or_index)
    ELSE IF top_n.t # "none"
    THEN Ok(select_top(cells, top_n.i))
    ELSE IF bottom_n.t # "none"
    THEN Ok(select_bottom(cells, bottom_n.i))
    ELSE Raise("ValueError")

-----------------------------------------------------------------------------
(* The command line: convert_to_int_if_needed, and argparse's checks *)

Digits == <<"0", "1", "2", "3", "4", "5", "6", "7", "8", "9">>

IsDigitChar(c) == \E d \in 1..Len(Digits) : Digits[d] = c

DigitVal(c) == (CHOOSE d \in 1..Len(Digits) : Digits[d] = c) - 1

\* str.isdigit: not empty, and digits only
isdigit(s) == Len(s) > 0 /\ \A j \in 1..Len(s) : IsDigitChar(s[j])

RECURSIVE Decimal(_)
\* the value of a string of digits
Decimal(s) ==
    IF s = <<>> THEN 0
    ELSE Decimal(SubSeq(s, 1, Len(s) - 1)) * Len(Digits) + DigitVal(s[Len(s)])

convert_to_int_if_needed(value) ==
    IF ~value.some THEN None
    ELSE IF isdigit(value.tok) THEN IntV(Decimal(value.tok))
    ELSE StrV(value.tok)

\* type=int of --top_n and --bottom_n: digits with an optional sign
IsIntToken(s) ==
    \/ isdigit(s)
    \/ Len(s) > 1 /\ s[1] \in {"-", "+"} /\ isdigit(Tail(s))

IntOfToken(value) ==
    IF ~value.some THEN None
    ELSE IF value.tok[1] = "-" THEN IntV(0 - Decimal(Tail(value.tok)))
    ELSE IF value.tok[1] = "+" THEN IntV(Decimal(Tail(value.tok)))
    ELSE IntV(Decimal(value.tok))

B2N(b) == IF b THEN 1 ELSE 0

\* the options of the mutually exclusive group that the command line gives
SeenInGroup(av) ==
    B2N(av.cell_ids_or_indexes.some) + B2N(av.before_id_or_index.some)
    + B2N(av.after_id_or_index.some) + B2N(av.all_cells)
    + B2N(av.top_n.some) + B2N(av.bottom_n.some)

\* parser.parse_args(): the group is required and mutually exclusive, and
\* --top_n and --bottom_n are ints
parse_args_ok(av) ==
    /\ SeenInGroup(av) = 1
    /\ av.top_n.some => IsIntToken(av.top_n.tok)
    /\ av.bottom_n.some => IsIntToken(av.bottom_n.tok)

\* the arguments main gives to extract_cells
main_args(av) ==
    [ source_nb |-> av.source_nb,
      dest_nb |-> av.dest_nb,
      cell_ids_or_indexes |->
          IF Truthy(av.cell_ids_or_indexes)
          THEN List([j \in 1..Len(av.cell_ids_or_indexes.l) |->
                       convert_to_int_if_needed(Tok(av.cell_ids_or_indexes.l[j]))])
          ELSE NoList,
      before_id_or_index |-> convert_to_int_if_needed(av.before_id_or_index),
      after_id_or_index |-> convert_to_int_if_needed(av.after_id_or_index),
      all_cells |-> av.all_cells,
      place_before_id_or_index |-> convert_to_int_if_needed(av.place_before_id_or_index),
      place_after_id_or_index |-> convert_to_int_if_needed(av.place_after_id_or_index),
      place_at_top |-> av.place_at_top,
      place_at_bottom |-> av.place_at_bottom,
      top_n |-> IntOfToken(av.top_n),
      bottom_n |-> IntOfToken(av.bottom_n) ]

-----------------------------------------------------------------------------
(* Files *)

Paths == {"p", "q"}

Missing == [kind |-> "missing", cells |-> <<>>]
Malformed == [kind |-> "malformed", cells |-> <<>>]
Doc(cells) == [kind |-> "doc", cells |-> cells]

NotLoaded == [loaded |-> FALSE, cells |-> <<>>]
Loaded(cells) == [loaded |-> TRUE, cells |-> cells]

\* open() of a missing path, or json.load of a malformed file, raises
load_notebook(d, file_path) ==
    IF d[file_path].kind = "missing" THEN Raise("FileNotFoundError")
    ELSE IF d[file_path].kind = "malformed" THEN Raise("JSONDecodeError")
    ELSE Ok(d[file_path].cells)

\* the file is overwritten with the document
save_notebook(d, file_path, cells) == [d EXCEPT ![file_path] = Doc(cells)]

-----------------------------------------------------------------------------
(* Inputs *)

\* integers on both sides of every index of a sequence
Ints == (0 - (MaxLen + 1))..(MaxLen + 1)

Refs == { IntV(k) : k \in Ints } \cup { StrV(A), StrV(B), StrV(Z) }

ListRefs == { IntV(0 - 1), IntV(0), IntV(1), IntV(2), StrV(A), StrV(B), StrV(Z) }

NoSel ==
    [ cell_ids_or_indexes |-> NoList, before_id_or_index |-> None,
      after_id_or_index |-> None, all_cells |-> FALSE,
      top_n |-> None, bottom_n |-> None ]

\* one criterion, with every value
SelOne ==
    { [NoSel EXCEPT !.cell_ids_or_indexes = List(l)] : l \in SeqsUpTo(ListRefs, MaxRefs) }
    \cup { [NoSel EXCEPT !.before_id_or_index = r] : r \in Refs }
    \cup { [NoSel EXCEPT !.after_id_or_index = r] : r \in Refs }
    \cup { [NoSel EXCEPT !.all_cells = TRUE] }
    \cup { [NoSel EXCEPT !.top_n = IntV(k)] : k \in Ints }
    \cup { [NoSel EXCEPT !.bottom_n = IntV(k)] : k \in Ints }

\* every combination of criteria supplied and not supplied
SelCombos ==
    [ cell_ids_or_indexes : {NoList, List(<<IntV(0), StrV(Z)>>)},
      before_id_or_index : {None, StrV(Z)},
      after_id_or_index : {None, IntV(0)},
      all_cells : BOOLEAN,
      top_n : {None, IntV(1)},
      bottom_n : {None, IntV(0 - 1)} ]

SelArgs == SelOne \cup SelCombos

NoPlace ==
    [ place_before_id_or_index |-> None, place_after_id_or_index |-> None,
      place_at_top |-> FALSE, place_at_bottom |-> FALSE ]

PlaceOne ==
    { [NoPlace EXCEPT !.place_before_id_or_index = r] : r \in Refs }
    \cup { [NoPlace EXCEPT !.place_after_id_or_index = r] : r \in Refs }

PlaceCombos ==
    [ place_before_id_or_index : {None, IntV(1), IntV(0 - 1), StrV(B), StrV(Z)},
      place_after_id_or_index : {None, IntV(1), IntV(0 - 1), StrV(B), StrV(Z)},
      place_at_top : BOOLEAN,
      place_at_bottom : BOOLEAN ]

PlaceArgs == PlaceOne \cup PlaceCombos

\* the arguments of extract_cells, from a selection, a placement and two paths
MkArgs(sel, place, src, dst) ==
    [ source_nb |-> src, dest_nb |-> dst,
      cell_ids_or_indexes |-> sel.cell_ids_or_indexes,
      before_id_or_index |-> sel.before_id_or_index,
      after_id_or_index |-> sel.after_id_or_index,
      all_cells |-> sel.all_cells,
      place_before_id_or_index |-> place.place_before_id_or_index,
      place_after_id_or_index |-> place.place_after_id_or_index,
      place_at_top |-> place.place_at_top,
      place_at_bottom |-> place.place_at_bottom,
      top_n |-> sel.top_n, bottom_n |-> sel.bottom_n ]

NoArgs == MkArgs(NoSel, NoPlace, "p", "q")

\* selections and placements of a whole run through extract_cells
RunSel ==
    { NoSel,
      [NoSel EXCEPT !.cell_ids_or_indexes = List(<<>>)],
      [NoSel EXCEPT !.cell_ids_or_indexes = List(<<StrV(A), StrV(Z)>>)],
      [NoSel EXCEPT !.cell_ids_or_indexes = List(<<IntV(0)>>)],
      [NoSel EXCEPT !.before_id_or_index = StrV(Z)],
      [NoSel EXCEPT !.before_id_or_index = StrV(B)],
      [NoSel EXCEPT !.after_id_or_index = IntV(0)],
      [NoSel EXCEPT !.all_cells = TRUE],
      [NoSel EXCEPT !.top_n = IntV(1)],
      [NoSel EXCEPT !.bottom_n = IntV(0)],
      [NoSel EXCEPT !.all_cells = TRUE, !.top_n = IntV(1)] }

RunPlace ==
    { NoPlace,
      [NoPlace EXCEPT !.place_at_top = TRUE],
      [NoPlace EXCEPT !.place_at_bottom = TRUE],
      [NoPlace EXCEPT !.place_before_id_or_index = IntV(1)],
      [NoPlace EXCEPT !.place_before_id_or_index = StrV(Z)],
      [NoPlace EXCEPT !.place_after_id_or_index = StrV(B)],
      [NoPlace EXCEPT !.place_after_id_or_index = IntV(0 - 1)],
      [NoPlace EXCEPT !.place_at_top = TRUE, !.place_before_id_or_index = StrV(Z)] }

\* the same, as tokens of a command line
NoCliSel ==
    [ cell_ids_or_indexes |-> NoList, before_id_or_index |-> NoTok,
      after_id_or_index |-> NoTok, all_cells |-> FALSE,
      top_n |-> NoTok, bottom_n |-> NoTok ]

CliSel ==
    { NoCliSel,
      [NoCliSel EXCEPT !.cell_ids_or_indexes = List(<<A, Z>>)],
      [NoCliSel EXCEPT !.cell_ids_or_indexes = List(<<<<"0">>, B>>)],
      [NoCliSel EXCEPT !.before_id_or_index = Tok(Z)],
      [NoCliSel EXCEPT !.before_id_or_index = Tok(<<"1">>)],
      [NoCliSel EXCEPT !.after_id_or_index = Tok(A)],
      [NoCliSel EXCEPT !.all_cells = TRUE],
      [NoCliSel EXCEPT !.top_n = Tok(<<"1">>)],
      [NoCliSel EXCEPT !.top_n = Tok(<<"-", "1">>)],
      [NoCliSel EXCEPT !.top_n = Tok(A)],
      [NoCliSel EXCEPT !.bottom_n = Tok(<<"0">>)],
      [NoCliSel EXCEPT !.all_cells = TRUE, !.top_n = Tok(<<"1">>)],
      [NoCliSel EXCEPT !.before_id_or_index = Tok(A), !.after_id_or_index = Tok(A)] }

NoCliPlace ==
    [ place_before_id_or_index |-> NoTok, place_after_id_or_index |-> NoTok,
      place_at_top |-> FALSE, place_at_bottom |-> FALSE ]

CliPlace ==
    { NoCliPlace,
      [NoCliPlace EXCEPT !.place_at_top = TRUE],
      [NoCliPlace EXCEPT !.place_at_bottom = TRUE],
      [NoCliPlace EXCEPT !.place_before_id_or_index = Tok(<<"1">>)],
      [NoCliPlace EXCEPT !.place_before_id_or_index = Tok(<<"-", "1">>)],
      [NoCliPlace EXCEPT !.place_before_id_or_index = Tok(Z)],
      [NoCliPlace EXCEPT !.place_after_id_or_index = Tok(B)],
      [NoCliPlace EXCEPT !.place_at_top = TRUE, !.place_before_id_or_index = Tok(Z)] }

NoArgv == MkArgs(NoCliSel, NoCliPlace, "p", "q")

Files == { Missing, Malformed } \cup { Doc(c) : c \in SeqsUpTo(DocCells, MaxDocLen) }

\* source and destination are two files, or the same file
PathPairs == { <<"p", "q">>, <<"p", "p">> }

-----------------------------------------------------------------------------
(* The run: main, then the steps of extract_cells *)

Fail(e) ==
    /\ pc' = "failed"
    /\ error' = e

\* a run that starts at main: the command line is not parsed yet
InitCli ==
    /\ entry = "cli"
    /\ pc = "main"
    /\ \E sel \in CliSel, place \in CliPlace, pp \in PathPairs :
           argv = MkArgs(sel, place, pp[1], pp[2])
    /\ args = NoArgs

\* a run that starts at extract_cells, called with its arguments
InitApi ==
    /\ entry = "api"
    /\ pc = "load_source"
    /\ argv = NoArgv
    /\ \E sel \in RunSel, place \in RunPlace, pp \in PathPairs :
           args = MkArgs(sel, place, pp[1], pp[2])

Init ==
    /\ InitCli \/ InitApi
    /\ disk \in [Paths -> Files]
    /\ disk0 = disk
    /\ source_data = NotLoaded
    /\ dest_data = NotLoaded
    /\ cells_to_extract = <<>>
    /\ error = "none"
    /\ log = <<>>

\* main: parse_args ends the process on a usage error before anything else
main ==
    /\ pc = "main"
    /\ IF parse_args_ok(argv)
       THEN /\ args' = main_args(argv)
            /\ pc' = "load_source"
            /\ error' = error
       ELSE /\ Fail("SystemExit")
            /\ args' = args
    /\ UNCHANGED <<entry, argv, disk, disk0, source_data, dest_data,
                   cells_to_extract, log>>

\* source_data = load_notebook(source_nb)
load_source ==
    /\ pc = "load_source"
    /\ LET r == load_notebook(disk, args.source_nb)
       IN  IF r.ok
           THEN /\ source_data' = Loaded(r.cells)
                /\ log' = Append(log, "load_source")
                /\ pc' = "load_dest"
                /\ error' = error
           ELSE /\ Fail(r.err)
                /\ UNCHANGED <<source_data, log>>
    /\ UNCHANGED <<entry, argv, args, disk, disk0, dest_data, cells_to_extract>>

\* dest_data = load_notebook(dest_nb)
load_dest ==
    /\ pc = "load_dest"
    /\ LET r == load_notebook(disk, args.dest_nb)
       IN  IF r.ok
           THEN /\ dest_data' = Loaded(r.cells)
                /\ log' = Append(log, "load_dest")
                /\ pc' = "select"
                /\ error' = error
           ELSE /\ Fail(r.err)
                /\ UNCHANGED <<dest_data, log>>
    /\ UNCHANGED <<entry, argv, args, disk, disk0, source_data, cells_to_extract>>

\* cells_to_extract = extract_cells_from_source(source_data, ...)
select ==
    /\ pc = "select"
    /\ LET r == extract_cells_from_source(source_data.cells,
                    args.cell_ids_or_indexes, args.before_id_or_index,
                    args.after_id_or_index, args.all_cells, args.top_n,
                    args.bottom_n)
       IN  IF r.ok
           THEN /\ cells_to_extract' = r.cells
                /\ log' = Append(log, "select")
                /\ pc' = "insert"
                /\ error' = error
           ELSE /\ Fail(r.err)
                /\ UNCHANGED <<cells_to_extract, log>>
    /\ UNCHANGED <<entry, argv, args, disk, disk0, source_data, dest_data>>

\* an insertion that opens the destination for writing before it inserts
insert_truncating ==
    /\ pc = "insert"
    /\ LET r == insert_cells(dest_data.cells, cells_to_extract,
                    args.place_before_id_or_index, args.place_after_id_or_index,
                    args.place_at_top, args.place_at_bottom)
       IN  /\ disk' = [disk EXCEPT ![args.dest_nb] = Malformed]
           /\ IF r.ok
              THEN /\ dest_data' = Loaded(r.cells)
                   /\ log' = Append(log, "insert")
                   /\ pc' = "save"
                   /\ error' = error
              ELSE /\ Fail(r.err)
                   /\ UNCHANGED <<dest_data, log>>
    /\ UNCHANGED <<entry, argv, args, disk0, source_data, cells_to_extract>>

\* dest_data["cells"] = insert_cells(dest_data["cells"], cells_to_extract, ...)
insert ==
    /\ pc = "insert"
    /\ LET r == insert_cells(dest_data.cells, cells_to_extract,
                    args.place_before_id_or_index, args.place_after_id_or_index,
                    args.place_at_top, args.place_at_bottom)
       IN  IF r.ok
           THEN /\ dest_data' = Loaded(r.cells)
                /\ log' = Append(log, "insert")
                /\ pc' = "save"
                /\ error' = error
           ELSE /\ Fail(r.err)
                /\ UNCHANGED <<dest_data, log>>
    /\ UNCHANGED <<entry, argv, args, disk, disk0, source_data, cells_to_extract>>

\* save_notebook(dest_nb, dest_data)
save ==
    /\ pc = "save"
    /\ disk' = save_notebook(disk, args.dest_nb, dest_data.cells)
    /\ log' = Append(log, "save")
    /\ pc' = "done"
    /\ UNCHANGED <<entry, argv, args, disk0, source_data, dest_data,
                   cells_to_extract, error>>

Next == main \/ load_source \/ load_dest \/ select \/ insert \/ save

Spec == Init /\ [][Next]_vars

-----------------------------------------------------------------------------
(* The Selector alone: extract_cells_from_source on every input *)

InitSelect ==
    /\ entry = "api"
    /\ pc = "select"
    /\ argv = NoArgv
    /\ \E sel \in SelArgs : args = MkArgs(sel, NoPlace, "p", "q")
    /\ source_data \in { Loaded(c) : c \in SeqsUpTo(Cells, MaxLen) }
    /\ disk = [f \in Paths |-> IF f = "p" THEN Doc(source_data.cells) ELSE Doc(<<>>)]
    /\ disk0 = disk
    /\ dest_data = Loaded(<<>>)
    /\ cells_to_extract = <<>>
    /\ error = "none"
    /\ log = <<>>

NextSelect == select

SpecSelect == InitSelect /\ [][NextSelect]_vars

-----------------------------------------------------------------------------
(* The Inserter alone: insert_cells on every input *)

InitInsert ==
    /\ entry = "api"
    /\ pc = "insert"
    /\ argv = NoArgv
    /\ \E place \in PlaceArgs : args = MkArgs(NoSel, place, "p", "q")
    /\ source_data = Loaded(<<>>)
    /\ dest_data \in { Loaded(c) : c \in SeqsUpTo(Cells, MaxLen) }
    /\ disk = [f \in Paths |-> IF f = "q" THEN Doc(dest_data.cells) ELSE Doc(<<>>)]
    /\ disk0 = disk
    /\ cells_to_extract \in SeqsUpTo(InsCells, MaxIns)
    /\ error = "none"
    /\ log = <<>>

NextInsert == insert

SpecInsert == InitInsert /\ [][NextInsert]_vars

-----------------------------------------------------------------------------
(* Properties: the terms they are stated in *)

\* the source and the destination cell sequences of the run, as loaded
S == disk0[args.source_nb].cells
D == disk0[args.dest_nb].cells
\* the inserted cells
E == cells_to_extract

\* the number of selection criteria supplied (an empty list is no criterion
\* to the code, and argparse never produces one)
NumSupplied ==
    B2N(Truthy(args.cell_ids_or_indexes)) + B2N(args.before_id_or_index.t # "none")
    + B2N(args.after_id_or_index.t # "none") + B2N(args.all_cells)
    + B2N(args.top_n.t # "none") + B2N(args.bottom_n.t # "none")

UsageErrors == {"ValueError", "SystemExit"}
NotFoundErrors == {"StopIteration"}

Selected == pc = "insert"
SelectFailed == pc = "failed"
Inserted == pc = "save"
InsertFailed == pc = "failed"

\* a CellReference of the data model: a string, or a non-negative integer
IsCellReference(r) == r.t = "str" \/ (r.t = "int" /\ r.i >= 0)

Smaller(a, b) == IF a < b THEN a ELSE b

\* s[0..k) and s[k..end) for k >= 0, 0-based
Upto(s, k) == SubSeq(s, 1, Smaller(k, Len(s)))
From(s, k) == SubSeq(s, Smaller(k, Len(s)) + 1, Len(s))

HasId(s, id) == \E i \in 1..Len(s) : s[i].id = id

\* the 0-based index of the first cell of s with the id
FirstWithId(s, id) ==
    (CHOOSE i \in 1..Len(s) :
        s[i].id = id /\ \A j \in 1..(i - 1) : s[j].id # id) - 1

Resolved(s, r) == IF r.t = "int" THEN r.i ELSE FirstWithId(s, r.s)
Resolves(s, r) == r.t = "int" \/ HasId(s, r.s)

-----------------------------------------------------------------------------
(* C2: the Selector returns cells only when exactly one criterion is        *)
(* supplied, and fails with a usage error when none or several are.         *)
C2_ExactlyOneCriterion ==
    (pc # "select" /\ NumSupplied # 1)
        => (SelectFailed /\ error \in UsageErrors)

(* C3: an explicit list with a string id that matches no cell of the source *)
(* fails with NotFound, and no partial result is returned.                  *)
C3_UnknownIdFails ==
    ( /\ pc # "select"
      /\ Truthy(args.cell_ids_or_indexes) /\ NumSupplied = 1
      /\ \E j \in 1..Len(args.cell_ids_or_indexes.l) :
            /\ args.cell_ids_or_indexes.l[j].t = "str"
            /\ ~HasId(S, args.cell_ids_or_indexes.l[j].s) )
        => (SelectFailed /\ error \in NotFoundErrors)

(* C5: bottom_n returns the last n cells of S when n >= 0 (none for n = 0,  *)
(* all of S when n >= len(S)), and all but the first abs(n) when n < 0.     *)
C5_BottomN ==
    (pc # "select" /\ args.bottom_n.t # "none" /\ NumSupplied = 1)
        => /\ Selected
           /\ LET n == args.bottom_n.i
              IN  cells_to_extract =
                    IF n >= 0 THEN From(S, Len(S) - Smaller(n, Len(S)))
                    ELSE From(S, 0 - n)

(* C6: for a reference r that is a string or a non-negative integer, with k *)
(* its resolved index (the first cell with the id), before r returns        *)
(* S[0..k) and after r returns S[k+1..end); a string that is no cell's id   *)
(* fails with NotFound.                                                     *)
C6_BeforeAfter ==
    /\ ( /\ pc # "select" /\ NumSupplied = 1
         /\ args.before_id_or_index.t # "none"
         /\ IsCellReference(args.before_id_or_index) )
        => IF Resolves(S, args.before_id_or_index)
           THEN /\ Selected
                /\ cells_to_extract = Upto(S, Resolved(S, args.before_id_or_index))
           ELSE SelectFailed /\ error \in NotFoundErrors
    /\ ( /\ pc # "select" /\ NumSupplied = 1
         /\ args.after_id_or_index.t # "none"
         /\ IsCellReference(args.after_id_or_index) )
        => IF Resolves(S, args.after_id_or_index)
           THEN /\ Selected
                /\ cells_to_extract = From(S, Resolved(S, args.after_id_or_index) + 1)
           ELSE SelectFailed /\ error \in NotFoundErrors

\* before "a" on a source whose second and third cells both have the id "a"
C6_Witness ==
    /\ Selected /\ NumSupplied = 1
    /\ args.before_id_or_index = StrV(A)
    /\ Len(S) = 3 /\ S[1].id = B /\ S[2].id = A /\ S[3].id = A
    /\ cells_to_extract = <<S[1]>>

\* the positions of S (1-based) that the list L names by index or by id
Named(L) ==
    { i \in 1..Len(S) :
        \E j \in 1..Len(L) : L[j] = IntV(i - 1) \/ L[j] = StrV(S[i].id) }

\* the k-th smallest element of P
Nth(P, k) == CHOOSE i \in P : Cardinality({ j \in P : j < i }) = k - 1

(* C8: a non-empty explicit list returns exactly the cells S[i] with i in   *)
(* the list or the id of S[i] in the list, in increasing order of i, each   *)
(* position once, whatever the order and the duplicates of the list.        *)
C8_ExplicitList ==
    (pc # "select" /\ Truthy(args.cell_ids_or_indexes) /\ NumSupplied = 1)
        => /\ Selected
           /\ LET P == Named(args.cell_ids_or_indexes.l)
              IN  /\ Len(cells_to_extract) = Cardinality(P)
                  /\ \A k \in 1..Len(cells_to_extract) :
                        cells_to_extract[k] = S[Nth(P, k)]

\* the list names the first cell by its id and by its index, out of order
C8_Witness ==
    /\ Selected /\ NumSupplied = 1
    /\ args.cell_ids_or_indexes = List(<<IntV(2), StrV(A)>>)
    /\ Len(S) = 3 /\ S[1].id = A /\ S[2].id = B /\ S[3].id = A
    /\ cells_to_extract = <<S[1], S[3]>>

-----------------------------------------------------------------------------
(* The Inserter *)

\* the placement that the priority order top, bottom, before, after selects
Mode ==
    IF args.place_at_top THEN "top"
    ELSE IF args.place_at_bottom THEN "bottom"
    ELSE IF args.place_before_id_or_index.t # "none" THEN "before"
    ELSE IF args.place_after_id_or_index.t # "none" THEN "after"
    ELSE "append"

\* the reference of that placement
ModeRef ==
    IF Mode = "before" THEN args.place_before_id_or_index
    ELSE IF Mode = "after" THEN args.place_after_id_or_index
    ELSE None

\* the result of one placement supplied alone
Alone(mode, r) ==
    IF mode = "top" THEN insert_cells(D, E, None, None, TRUE, FALSE)
    ELSE IF mode = "bottom" THEN insert_cells(D, E, None, None, FALSE, TRUE)
    ELSE IF mode = "before" THEN insert_cells(D, E, r, None, FALSE, FALSE)
    ELSE IF mode = "after" THEN insert_cells(D, E, None, r, FALSE, FALSE)
    ELSE Ok(D \o E)

(* C4: insert_cells applies the one placement that comes first in the order *)
(* top, bottom, before, after: the outcome is the outcome of that placement *)
(* supplied alone, whatever the placements of lower priority are (one that  *)
(* does not resolve causes no failure), and D ++ E when none is supplied.   *)
C4_Priority ==
    (pc # "insert")
        => /\ IF Alone(Mode, ModeRef).ok
              THEN Inserted /\ dest_data.cells = Alone(Mode, ModeRef).cells
              ELSE InsertFailed /\ error = Alone(Mode, ModeRef).err
           /\ Mode = "top" => Inserted /\ dest_data.cells = E \o D
           /\ Mode \in {"bottom", "append"} => Inserted /\ dest_data.cells = D \o E

\* both flags and a reference that matches no cell: the cells go to the top
C4_Witness ==
    /\ Inserted
    /\ args.place_at_top /\ args.place_at_bottom
    /\ args.place_before_id_or_index = StrV(Z)
    /\ args.place_after_id_or_index = IntV(1)
    /\ Len(D) = 2 /\ Len(E) = 1
    /\ dest_data.cells = E \o D

(* C7: with r resolving to a valid index k of D, place_before r yields      *)
(* D[0..k) ++ E ++ D[k..end) and place_after r yields                       *)
(* D[0..k] ++ E ++ D[k+1..end), which is D ++ E for the last index; a       *)
(* string r that matches no cell of D fails with NotFound.                  *)
C7_BeforeAfterPlacement ==
    (pc # "insert" /\ Mode \in {"before", "after"})
        => IF ~Resolves(D, ModeRef)
           THEN InsertFailed /\ error \in NotFoundErrors
           ELSE LET k == Resolved(D, ModeRef)
                IN  (0 <= k /\ k < Len(D))
                        => /\ Inserted
                           /\ Mode = "before" =>
                                dest_data.cells = Upto(D, k) \o E \o From(D, k)
                           /\ Mode = "after" =>
                                dest_data.cells = Upto(D, k + 1) \o E \o From(D, k + 1)
                           /\ (Mode = "after" /\ k = Len(D) - 1) =>
                                dest_data.cells = D \o E

\* place_after the id of the middle cell of three
C7_Witness ==
    /\ Inserted /\ Mode = "after"
    /\ ModeRef = StrV(B)
    /\ Len(D) = 3 /\ D[2].id = B /\ D[1].id = A /\ D[3].id = A
    /\ Len(E) = 2
    /\ dest_data.cells = <<D[1], D[2]>> \o E \o <<D[3]>>

(* C10: whenever insert_cells returns, the result is D with E spliced in as *)
(* one block: its length is len(D) + len(E), and no cell of D is dropped,   *)
(* duplicated or reordered; an integer reference never causes an error.     *)
C10_Splice ==
    /\ Inserted
        => /\ Len(dest_data.cells) = Len(D) + Len(E)
           /\ \E p \in 0..Len(D) :
                dest_data.cells = SubSeq(D, 1, p) \o E \o SubSeq(D, p + 1, Len(D))
    /\ (pc # "insert" /\ ModeRef.t # "str") => Inserted

\* place_before -1: the cells go before the last cell
C10_Witness ==
    /\ Inserted /\ Mode = "before"
    /\ ModeRef = IntV(0 - 1)
    /\ Len(D) = 3 /\ Len(E) = 1
    /\ dest_data.cells = <<D[1], D[2]>> \o E \o <<D[3]>>

-----------------------------------------------------------------------------
(* The whole run *)

Range(s) == { s[i] : i \in 1..Len(s) }

(* C1: the destination file is written only after both documents were      *)
(* loaded and the selection and the insertion returned; a run that fails    *)
(* has written nothing, and the disk is as it was before the run.           *)
C1_WriteLast ==
    /\ pc # "done" => disk = disk0 /\ "save" \notin Range(log)
    /\ pc = "done" =>
          /\ log = <<"load_source", "load_dest", "select", "insert", "save">>
          /\ source_data.loaded /\ dest_data.loaded
          /\ error = "none"
          /\ disk = [disk0 EXCEPT ![args.dest_nb] = Doc(dest_data.cells)]
    /\ pc = "failed" => error # "none"

\* the insertion fails on a reference that matches no cell of the destination
C1_Witness ==
    /\ pc = "failed" /\ error = "StopIteration"
    /\ log = <<"load_source", "load_dest", "select">>
    /\ Len(E) > 0 /\ Len(D) > 0
    /\ disk = disk0

(* C9: a run that ends in a usage error (no criterion, or several) raises   *)
(* it before any file I/O: no document was loaded and nothing was written.  *)
C9_UsageErrorBeforeIO ==
    (pc = "failed" /\ error \in UsageErrors)
        => /\ log = <<>>
           /\ ~source_data.loaded /\ ~dest_data.loaded

====
